---- MODULE Spec2Model ----
(***************************************************************************)
(* The WebSocket relay of ws-server/server.js and its sibling revisions:   *)
(* connections are accepted, a JSON payload received from any client is    *)
(* validated, cached in latestJson and broadcast, and (in the heartbeat    *)
(* revision) a per-connection interval timer probes the peer and           *)
(* terminates it when a probe goes unanswered.                             *)
(*                                                                         *)
(* Every handler (connection, message, pong, close, error, timer tick)     *)
(* runs to completion on Node's single event-loop thread, so each is one   *)
(* action.  The ws library's part of a handler (adding the socket to       *)
(* wss.clients before 'connection', removing it when 'close' is emitted,   *)
(* terminate() moving the socket to CLOSING) is modelled with the handler  *)
(* that triggers it.  The frames a handler hands to send() and ping() are  *)
(* written to the sockets when it returns (Drain), before the event loop   *)
(* dispatches the next event.                                              *)
(***************************************************************************)
EXTENDS Integers, Sequences, FiniteSets, TLC

(***************************************************************************)
(* Bounds of the analysis.                                                 *)
(***************************************************************************)
\* number of connections the server accepts during a run
MaxConns == 2
\* number of recipients whose send() throws during one broadcast
MaxFailing == 1
\* number of connections the origin-checking revision accepts during a run
MaxOriginConns == 3
\* the readings of the wall clock are 0..MaxClock
MaxClock == 1
\* largest integer-like property name ("0", "1", ...) of the payloads
MaxIndex == 1
MaxTimers == 3

(***************************************************************************)
(* Program constants.                                                      *)
(***************************************************************************)
\* const MAX_PAYLOAD_SIZE = 100 * 1024
MAX_PAYLOAD_SIZE == 102400

Conns == 1..MaxConns
OriginConns == 1..MaxOriginConns

(***************************************************************************)
(* JavaScript values.  A string is a TLA+ string, a number an integer, an  *)
(* array a sequence of values, an object the sequence of its own           *)
(* properties in property order.                                           *)
(***************************************************************************)
Undefined == [t |-> "undefined"]
JNull == [t |-> "null"]
JBool(b) == [t |-> "bool", b |-> b]
JNum(n) == [t |-> "num", n |-> n]
JStr(s) == [t |-> "str", s |-> s]
JArr(items) == [t |-> "arr", items |-> items]
JObj(members) == [t |-> "obj", members |-> members]
Member(k, v) == [k |-> k, v |-> v]

\* typeof v
TypeOf(v) ==
    CASE v.t = "undefined" -> "undefined"
      [] v.t = "bool" -> "boolean"
      [] v.t = "num" -> "number"
      [] v.t = "str" -> "string"
      [] OTHER -> "object"

\* ToBoolean(v), as used by if (latestJson)
Truthy(v) ==
    CASE v.t \in {"undefined", "null"} -> FALSE
      [] v.t = "bool" -> v.b
      [] v.t = "num" -> v.n # 0
      [] v.t = "str" -> v.s # ""
      [] OTHER -> TRUE

\* the property names that are array indices sort first, in numeric order
IsIndexKey(k) == \E n \in 0..MaxIndex : k = ToString(n)
KeyIndex(k) == CHOOSE n \in 0..MaxIndex : k = ToString(n)

\* the UTF-16 code units of the strings the payloads carry
CodeUnits(s) ==
    CASE s = "" -> <<>>
      [] s = "a" -> <<"a">>
      [] s = "ab" -> <<"a", "b">>
      [] s = "é" -> <<"é">>

\* the number of bytes of the UTF-8 encoding of s
Utf8Length(s) == IF s = "é" THEN 2 ELSE Len(s)

HasKey(members, k) == \E i \in 1..Len(members) : members[i].k = k

\* members with property k defined as v: an existing property keeps its place,
\* a new index property goes among the index properties, any other goes last
DefineProperty(members, k, v) ==
    IF HasKey(members, k)
    THEN [i \in 1..Len(members) |->
            IF members[i].k = k THEN Member(k, v) ELSE members[i]]
    ELSE IF IsIndexKey(k)
    THEN LET before == SelectSeq(members,
                 LAMBDA m : IsIndexKey(m.k) /\ KeyIndex(m.k) < KeyIndex(k))
             after == SelectSeq(members,
                 LAMBDA m : ~(IsIndexKey(m.k) /\ KeyIndex(m.k) < KeyIndex(k)))
         IN  before \o <<Member(k, v)>> \o after
    ELSE Append(members, Member(k, v))

\* the own enumerable properties of v, in order: what { ...v } copies
OwnProperties(v) ==
    CASE v.t = "obj" -> v.members
      [] v.t = "arr" -> [i \in 1..Len(v.items) |-> Member(ToString(i - 1), v.items[i])]
      [] v.t = "str" -> LET cu == CodeUnits(v.s)
                        IN  [i \in 1..Len(cu) |-> Member(ToString(i - 1), JStr(cu[i]))]
      [] OTHER -> <<>>

RECURSIVE DefineAll(_, _)
DefineAll(members, props) ==
    IF props = <<>> THEN members
    ELSE DefineAll(DefineProperty(members, Head(props).k, Head(props).v), Tail(props))

\* { ...v }
Spread(v) == DefineAll(<<>>, OwnProperties(v))

\* v[k] for a property name k
GetProperty(v, k) ==
    LET props == OwnProperties(v)
    IN  IF HasKey(props, k)
        THEN props[CHOOSE i \in 1..Len(props) : props[i].k = k].v
        ELSE Undefined

(***************************************************************************)
(* JSON text.  A text is the sequence of its lexemes; white space around   *)
(* them is counted but not kept.                                           *)
(***************************************************************************)
Punct(s) == [k |-> "punct", s |-> s]
StrTok(s) == [k |-> "str", s |-> s]
NumTok(n) == [k |-> "num", n |-> n]
LitTok(s) == [k |-> "lit", s |-> s]
BadTok(s) == [k |-> "bad", s |-> s]
LBrace == Punct("{")
RBrace == Punct("}")
LBrack == Punct("[")
RBrack == Punct("]")
Colon == Punct(":")
Comma == Punct(",")

TokLen(tok) ==
    CASE tok.k = "punct" -> 1
      [] tok.k = "str" -> Len(tok.s) + 2
      [] tok.k = "num" -> Len(ToString(tok.n))
      [] OTHER -> Len(tok.s)

\* the length of a lexeme in UTF-16 code units, which is what String.length counts
RECURSIVE TextLen(_)
TextLen(toks) == IF toks = <<>> THEN 0 ELSE TokLen(Head(toks)) + TextLen(Tail(toks))

\* the length of a lexeme in bytes on the wire
TokBytes(tok) == IF tok.k = "str" THEN Utf8Length(tok.s) + 2 ELSE TokLen(tok)

RECURSIVE TextBytes(_)
TextBytes(toks) == IF toks = <<>> THEN 0 ELSE TokBytes(Head(toks)) + TextBytes(Tail(toks))

SyntaxError == [ok |-> FALSE]
Parsed(v, rest) == [ok |-> TRUE, val |-> v, rest |-> rest]

RECURSIVE ParseValue(_)
RECURSIVE ParseElements(_, _)
RECURSIVE ParseMembers(_, _)

\* one JSON value at the head of toks
ParseValue(toks) ==
    IF toks = <<>> THEN SyntaxError
    ELSE LET h == Head(toks) IN
         CASE h.k = "num" -> Parsed(JNum(h.n), Tail(toks))
           [] h.k = "str" -> Parsed(JStr(h.s), Tail(toks))
           [] h.k = "lit" /\ h.s = "null" -> Parsed(JNull, Tail(toks))
           [] h.k = "lit" /\ h.s = "true" -> Parsed(JBool(TRUE), Tail(toks))
           [] h.k = "lit" /\ h.s = "false" -> Parsed(JBool(FALSE), Tail(toks))
           [] h = LBrack ->
                IF Len(toks) >= 2 /\ toks[2] = RBrack
                THEN Parsed(JArr(<<>>), Tail(Tail(toks)))
                ELSE ParseElements(Tail(toks), <<>>)
           [] h = LBrace ->
                IF Len(toks) >= 2 /\ toks[2] = RBrace
                THEN Parsed(JObj(<<>>), Tail(Tail(toks)))
                ELSE ParseMembers(Tail(toks), <<>>)
           [] OTHER -> SyntaxError

\* value ("," value)* "]"
ParseElements(toks, acc) ==
    LET r == ParseValue(toks) IN
    IF ~r.ok \/ r.rest = <<>> THEN SyntaxError
    ELSE IF Head(r.rest) = RBrack
    THEN Parsed(JArr(Append(acc, r.val)), Tail(r.rest))
    ELSE IF Head(r.rest) = Comma
    THEN ParseElements(Tail(r.rest), Append(acc, r.val))
    ELSE SyntaxError

\* string ":" value ("," string ":" value)* "}"
ParseMembers(toks, acc) ==
    IF Len(toks) < 2 \/ Head(toks).k # "str" \/ toks[2] # Colon THEN SyntaxError
    ELSE LET r == ParseValue(Tail(Tail(toks))) IN
         IF ~r.ok \/ r.rest = <<>> THEN SyntaxError
         ELSE LET acc2 == DefineProperty(acc, Head(toks).s, r.val) IN
              IF Head(r.rest) = RBrace
              THEN Parsed(JObj(acc2), Tail(r.rest))
              ELSE IF Head(r.rest) = Comma
              THEN ParseMembers(Tail(r.rest), acc2)
              ELSE SyntaxError

\* JSON.parse(text): the value, or SyntaxError where JSON.parse throws
JSONparse(toks) ==
    LET r == ParseValue(toks)
    IN  IF r.ok /\ r.rest = <<>> THEN r.val ELSE SyntaxError

RECURSIVE Stringify(_)
RECURSIVE StringifyItems(_)
RECURSIVE StringifyMembers(_, _)

\* JSON.stringify(v) for a value that is not undefined
Stringify(v) ==
    CASE v.t = "null" -> <<LitTok("null")>>
      [] v.t = "bool" -> <<LitTok(IF v.b THEN "true" ELSE "false")>>
      [] v.t = "num" -> <<NumTok(v.n)>>
      [] v.t = "str" -> <<StrTok(v.s)>>
      [] v.t = "arr" -> <<LBrack>> \o StringifyItems(v.items) \o <<RBrack>>
      [] v.t = "obj" -> <<LBrace>> \o StringifyMembers(v.members, TRUE) \o <<RBrace>>

\* the items of an array; an undefined item is written null
StringifyItems(items) ==
    IF items = <<>> THEN <<>>
    ELSE (IF Head(items).t = "undefined" THEN <<LitTok("null")>> ELSE Stringify(Head(items)))
         \o (IF Len(items) > 1 THEN <<Comma>> ELSE <<>>)
         \o StringifyItems(Tail(items))

\* the properties of an object; a property whose value is undefined is left out
StringifyMembers(members, first) ==
    IF members = <<>> THEN <<>>
    ELSE IF Head(members).v.t = "undefined" THEN StringifyMembers(Tail(members), first)
    ELSE (IF first THEN <<>> ELSE <<Comma>>)
         \o <<StrTok(Head(members).k), Colon>> \o Stringify(Head(members).v)
         \o StringifyMembers(Tail(members), FALSE)

(***************************************************************************)
(* Messages a client sends: the lexemes of the text and the white space    *)
(* around them.  data.toString().length is the length of both in UTF-16    *)
(* code units; the frame's payload is their UTF-8 encoding.                *)
(***************************************************************************)
Msg(toks, pad) == [toks |-> toks, pad |-> pad]
MsgLength(m) == TextLen(m.toks) + m.pad
MsgBytes(m) == TextBytes(m.toks) + m.pad
NoMsg == Msg(<<>>, 0)

\* not json
TextNotJson == <<BadTok("not"), BadTok("json")>>
\* 42
TextScalar == <<NumTok(42)>>
\* null
TextNull == <<LitTok("null")>>
\* [1]
TextArray == <<LBrack, NumTok(1), RBrack>>
\* {"x":1}
TextX == <<LBrace, StrTok("x"), Colon, NumTok(1), RBrace>>
\* {"x":1,"_meta":{"v":1}}
TextMeta ==
    <<LBrace, StrTok("x"), Colon, NumTok(1), Comma, StrTok("_meta"), Colon,
      LBrace, StrTok("v"), Colon, NumTok(1), RBrace, RBrace>>
\* {"_meta":"ab"}
TextStrMeta == <<LBrace, StrTok("_meta"), Colon, StrTok("ab"), RBrace>>
\* {"x":"é"}
TextWide == <<LBrace, StrTok("x"), Colon, StrTok("é"), RBrace>>

Messages ==
    { Msg(TextNotJson, 1), Msg(TextScalar, 0), Msg(TextNull, 0), Msg(TextArray, 0),
      Msg(TextX, 0), Msg(TextStrMeta, 0), Msg(TextMeta, 0),
      \* {"x":"é"} padded to MAX_PAYLOAD_SIZE characters, which are one byte more
      Msg(TextWide, MAX_PAYLOAD_SIZE - TextLen(TextWide)),
      \* {"x":1,"_meta":{"v":1}} padded to one character past MAX_PAYLOAD_SIZE
      Msg(TextMeta, MAX_PAYLOAD_SIZE + 1 - TextLen(TextMeta)) }

\* data.toString().length, the payload's bytes and JSON.parse(message) of each
\* message
LengthOf == [m \in Messages |-> MsgLength(m)]
BytesOf == [m \in Messages |-> MsgBytes(m)]
ParseOf == [m \in Messages |-> JSONparse(m.toks)]

(***************************************************************************)
(* The state.                                                              *)
(***************************************************************************)
VARIABLES
    readyState,     \* ws.readyState of each socket; NONE before it is accepted
    clients,        \* wss.clients, in insertion order
    latestJson,     \* let latestJson
    isAlive,        \* let isAlive of each connection's closure
    pingInterval,   \* whether the connection's interval timer is set
    sent,           \* the frames the last handler passed to send() and ping()
    parseCalls,     \* the calls of JSON.parse the last handler made
    last,           \* the handler that ran last: its event, connection and inputs
    missed,         \* history: ticks since the connection's last pong, up to 2
    process,        \* the Node process: the revision it runs, whether it is
                    \* starting, listening, failed to bind or exited, and why
    timers          \* the setTimeout callbacks not yet run, in the order set

vars ==
    <<readyState, clients, latestJson, isAlive, pingInterval,
      sent, parseCalls, last, missed, process, timers>>

\* the sockets of the run
Sockets == DOMAIN readyState

\* what new Date() may read: the wall clock is not monotonic
Clock == 0..MaxClock

\* what process.env.NODE_ENV may read
NodeEnvs == {"development", "production"}

\* a handler run: the kind of its event, its connection, the message received
\* (of an upgrade request: its Origin header),
\* what the handler read from the clock and from NODE_ENV, and whether it
\* accepted the message.  idle: the handler has returned.
Event(op, c, m, ms, env, accepted) ==
    [op |-> op, c |-> c, msg |-> m, ms |-> ms, env |-> env, accepted |-> accepted]
Other(op, c) == Event(op, c, NoMsg, 0, "", FALSE)
Idle == Other("idle", 0)

\* a frame handed to the socket of connection c; threw: send() threw instead
TextFrame(c, data, threw) == [to |-> c, kind |-> "text", data |-> data, threw |-> threw]
PingFrame(c) == [to |-> c, kind |-> "ping", data |-> <<>>, threw |-> FALSE]

\* new Date().toISOString()
toISOString(ms) == "t" \o ToString(ms)

\* a terminate() that closes at once a socket that is already CLOSING
TerminateClosingAtOnce(rs, c) ==
    IF rs[c] = "OPEN" THEN [rs EXCEPT ![c] = "CLOSING"]
    ELSE IF rs[c] = "CLOSING" THEN [rs EXCEPT ![c] = "CLOSED"]
    ELSE rs

\* ws.terminate(): an OPEN or CLOSING socket is destroyed and is CLOSING until
\* its 'close' event; a CLOSED one is left alone
Terminate(rs, c) ==
    IF rs[c] \in {"OPEN", "CLOSING"} THEN [rs EXCEPT ![c] = "CLOSING"] ELSE rs

\* wss.clients.delete(ws)
RemoveClient(cs, c) == SelectSeq(cs, LAMBDA d : d # c)

InClients(c) == \E i \in 1..Len(clients) : clients[i] = c

\* the process of a revision before server.listen has bound the port
Starting(revision) == [revision |-> revision, state |-> "starting", code |-> 0, cause |-> ""]

\* process.exit(code), or the end of a process that has nothing left to do
Exited(proc, code, cause) == [proc EXCEPT !.state = "exited", !.code = code, !.cause = cause]

\* the process is listening, and the handler that runs does not end it
Serving == process.state = "listening" /\ process' = process

InitOf(conns, revision) ==
    /\ process = Starting(revision)
    /\ readyState = [c \in conns |-> "NONE"]
    /\ clients = <<>>
    /\ latestJson = JNull
    /\ isAlive = [c \in conns |-> FALSE]
    /\ pingInterval = [c \in conns |-> FALSE]
    /\ sent = <<>>
    /\ parseCalls = 0
    /\ last = Idle
    /\ missed = [c \in conns |-> 0]
    /\ timers = <<>>

Init == InitOf(Conns, "heartbeat")

\* connections are numbered in the order the server accepts them
NextConn(c) == /\ readyState[c] = "NONE"
               /\ \A d \in Sockets : d < c => readyState[d] # "NONE"

(***************************************************************************)
(* The heartbeat revision, server.js lines 150-347.                        *)
(***************************************************************************)

\* a greeting that is the cached value as it stands
GreetingUnchanged(cache, ms) == cache

\* { ...latestJson, _meta: { timestamp: new Date().toISOString() } }
Greeting(cache, ms) ==
    JObj(DefineProperty(Spread(cache), "_meta",
            JObj(<<Member("timestamp", JStr(toISOString(ms)))>>)))

\* what the connection handler sends: the cached value, if there is one
OnConnection(ws, cache, ms) ==
    IF Truthy(cache) THEN <<TextFrame(ws, Stringify(Greeting(cache, ms)), FALSE)>> ELSE <<>>

\* wss.on('connection'): the socket joins wss.clients, the closure's isAlive
\* and interval timer are set up and the cached value, if any, is sent
Connection(c, ms) ==
    /\ Serving
    /\ last = Idle
    /\ NextConn(c)
    /\ readyState' = [readyState EXCEPT ![c] = "OPEN"]
    /\ clients' = Append(clients, c)
    /\ isAlive' = [isAlive EXCEPT ![c] = TRUE]
    /\ pingInterval' = [pingInterval EXCEPT ![c] = TRUE]
    /\ sent' = OnConnection(c, latestJson, ms)
    /\ parseCalls' = 0
    /\ last' = Event("connection", c, NoMsg, ms, "", FALSE)
    /\ missed' = [missed EXCEPT ![c] = 0]
    /\ UNCHANGED <<timers, latestJson>>

\* a receipt that overwrites the payload's _meta instead of merging into it
WithReceiptOverwrite(jsonData, ms) ==
    JObj(DefineProperty(Spread(jsonData), "_meta",
            JObj(<<Member("receivedAt", JStr(toISOString(ms)))>>)))

\* { ...jsonData, _meta: { ...jsonData._meta, receivedAt: new Date().toISOString() } }
WithReceipt(jsonData, ms) ==
    JObj(DefineProperty(Spread(jsonData), "_meta",
            JObj(DefineProperty(Spread(GetProperty(jsonData, "_meta")),
                    "receivedAt", JStr(toISOString(ms))))))

\* { error: 'Invalid message format', details: development ? error.message : undefined }
ErrorPayload(env, message) ==
    JObj(<<Member("error", JStr("Invalid message format")),
           Member("details", IF env = "development" THEN JStr(message) ELSE Undefined)>>)

\* a broadcast loop that a throwing send ends
BroadcastUntilThrow(cs, rs, data, failing) ==
    LET open == SelectSeq(cs, LAMBDA c : rs[c] = "OPEN")
        stop == IF \E i \in 1..Len(open) : open[i] \in failing
                THEN CHOOSE i \in 1..Len(open) :
                        /\ open[i] \in failing
                        /\ \A j \in 1..(i - 1) : open[j] \notin failing
                ELSE Len(open)
    IN  [sent |-> [i \in 1..stop |-> TextFrame(open[i], data, open[i] \in failing)],
         rs |-> [c \in DOMAIN rs |->
                    IF stop > 0 /\ c = open[stop] /\ c \in failing
                    THEN Terminate(rs, c)[c] ELSE rs[c]]]

\* the broadcast loop over wss.clients: each OPEN client is sent data; a client
\* whose send throws is terminated and the loop goes on with the next client
BroadcastAll(cs, rs, data, failing) ==
    [sent |-> [i \in 1..Len(SelectSeq(cs, LAMBDA c : rs[c] = "OPEN")) |->
                 TextFrame(SelectSeq(cs, LAMBDA c : rs[c] = "OPEN")[i], data,
                           SelectSeq(cs, LAMBDA c : rs[c] = "OPEN")[i] \in failing)],
     rs |-> [c \in DOMAIN rs |->
                 IF rs[c] = "OPEN" /\ c \in failing /\ (\E i \in 1..Len(cs) : cs[i] = c)
                 THEN Terminate(rs, c)[c] ELSE rs[c]]]

\* a catch branch that forgets the cached value
RejectClearingCache(ws, rs, cache, env, message, parses) ==
    [latestJson |-> JNull,
     rs |-> rs,
     sent |-> IF rs[ws] = "OPEN"
              THEN <<TextFrame(ws, Stringify(ErrorPayload(env, message)), FALSE)>>
              ELSE <<>>,
     parseCalls |-> parses,
     accepted |-> FALSE]

\* a catch branch that also terminates the sender
RejectTerminating(ws, rs, cache, env, message, parses) ==
    [latestJson |-> cache,
     rs |-> Terminate(rs, ws),
     sent |-> IF rs[ws] = "OPEN"
              THEN <<TextFrame(ws, Stringify(ErrorPayload(env, message)), FALSE)>>
              ELSE <<>>,
     parseCalls |-> parses,
     accepted |-> FALSE]

\* the catch branch of the message handler: the sender, if OPEN, is sent the error
Reject(ws, rs, cache, env, message, parses) ==
    [latestJson |-> cache,
     rs |-> rs,
     sent |-> IF rs[ws] = "OPEN"
              THEN <<TextFrame(ws, Stringify(ErrorPayload(env, message)), FALSE)>>
              ELSE <<>>,
     parseCalls |-> parses,
     accepted |-> FALSE]

\* a validation without the typeof check
ValidateNoTypeCheck(m) ==
    IF LengthOf[m] > MAX_PAYLOAD_SIZE
    THEN [error |-> "Message exceeds maximum size of " \o ToString(MAX_PAYLOAD_SIZE)
                        \o " bytes", parses |-> 0]
    ELSE IF ParseOf[m] = SyntaxError
    THEN [error |-> "Unexpected token in JSON", parses |-> 1]
    ELSE [error |-> "", parses |-> 1]

\* what the validation of the message handler decides: "" to accept, or the
\* message of the error thrown, with the number of calls of JSON.parse made
Validate(m) ==
    IF LengthOf[m] > MAX_PAYLOAD_SIZE
    THEN [error |-> "Message exceeds maximum size of " \o ToString(MAX_PAYLOAD_SIZE)
                        \o " bytes", parses |-> 0]
    ELSE IF ParseOf[m] = SyntaxError
    THEN [error |-> "Unexpected token in JSON", parses |-> 1]
    ELSE IF TypeOf(ParseOf[m]) # "object" \/ ParseOf[m] = JNull
    THEN [error |-> "Invalid JSON structure", parses |-> 1]
    ELSE [error |-> "", parses |-> 1]

\* the value the handler caches for an accepted message, and its JSON.stringify
ReceiptOf ==
    [m \in Messages |-> [ms \in Clock |->
        IF Validate(m).error # "" THEN JNull ELSE WithReceipt(ParseOf[m], ms)]]
ReceiptTextOf == [m \in Messages |-> [ms \in Clock |-> Stringify(ReceiptOf[m][ms])]]

\* a message handler that merges the payload into the value cached before
OnMessageAccumulating(ws, m, failing, rs, cs, cache, ms, env) ==
    IF Validate(m).error # ""
    THEN Reject(ws, rs, cache, env, Validate(m).error, Validate(m).parses)
    ELSE [latestJson |->
              WithReceipt(JObj(DefineAll(Spread(cache), OwnProperties(ParseOf[m]))), ms),
          rs |-> BroadcastAll(cs, rs, <<>>, failing).rs,
          sent |-> BroadcastAll(cs, rs,
                      Stringify(WithReceipt(JObj(DefineAll(Spread(cache),
                                                  OwnProperties(ParseOf[m]))), ms)),
                      failing).sent,
          parseCalls |-> 1,
          accepted |-> TRUE]

\* a message handler whose broadcast skips the sender
OnMessageSkippingSender(ws, m, failing, rs, cs, cache, ms, env) ==
    IF Validate(m).error # ""
    THEN Reject(ws, rs, cache, env, Validate(m).error, Validate(m).parses)
    ELSE [latestJson |-> ReceiptOf[m][ms],
          rs |-> BroadcastAll(RemoveClient(cs, ws), rs, <<>>, failing).rs,
          sent |-> BroadcastAll(RemoveClient(cs, ws), rs, ReceiptTextOf[m][ms], failing).sent,
          parseCalls |-> 1,
          accepted |-> TRUE]

\* ws.on('message'): what the handler leaves behind
OnMessage(ws, m, failing, rs, cs, cache, ms, env) ==
    IF Validate(m).error # ""
    THEN Reject(ws, rs, cache, env, Validate(m).error, Validate(m).parses)
    ELSE [latestJson |-> ReceiptOf[m][ms],
          rs |-> BroadcastAll(cs, rs, <<>>, failing).rs,
          sent |-> BroadcastAll(cs, rs, ReceiptTextOf[m][ms], failing).sent,
          parseCalls |-> 1,
          accepted |-> TRUE]

\* the readings of the clock and of NODE_ENV that the handler of m makes
ClockOf(m) == IF Validate(m).error # "" THEN {0} ELSE Clock
NodeEnvOf(m) == IF Validate(m).error # "" THEN NodeEnvs ELSE {""}

\* the sets of clients whose send may throw while m is handled
FailingSets(m) ==
    IF Validate(m).error # "" THEN {{}}
    ELSE {f \in SUBSET {c \in Sockets : readyState[c] = "OPEN" /\ InClients(c)} :
            Cardinality(f) <= MaxFailing}

\* a 'message' event of connection c.  The socket may already be CLOSING: ws
\* still emits the frames it had buffered when the socket was terminated.
Message(c, m, failing, ms, env) ==
    /\ Serving
    /\ last = Idle
    /\ readyState[c] \in {"OPEN", "CLOSING"}
    /\ \E r \in {OnMessage(c, m, failing, readyState, clients, latestJson, ms, env)} :
         /\ latestJson' = r.latestJson
         /\ readyState' = r.rs
         /\ sent' = r.sent
         /\ parseCalls' = r.parseCalls
         /\ last' = Event("message", c, m, ms, env, r.accepted)
    /\ UNCHANGED <<timers, clients, isAlive, pingInterval, missed>>

\* a timer callback that probes and never terminates
PingTickProbing(c) ==
    /\ Serving
    /\ last = Idle
    /\ pingInterval[c]
    /\ isAlive' = [isAlive EXCEPT ![c] = FALSE]
    /\ sent' = IF readyState[c] = "OPEN" THEN <<PingFrame(c)>> ELSE <<>>
    /\ missed' = [missed EXCEPT ![c] = IF missed[c] < 2 THEN missed[c] + 1 ELSE 2]
    /\ parseCalls' = 0
    /\ last' = Other("tick", c)
    /\ UNCHANGED <<timers, readyState, clients, latestJson, pingInterval>>

\* the setInterval callback: a connection that has not answered the previous
\* probe is terminated, any other is marked and probed
PingTick(c) ==
    /\ Serving
    /\ last = Idle
    /\ pingInterval[c]
    /\ IF ~isAlive[c]
       THEN /\ readyState' = Terminate(readyState, c)
            /\ sent' = <<>>
            /\ UNCHANGED isAlive
       ELSE /\ isAlive' = [isAlive EXCEPT ![c] = FALSE]
            \* ws.ping() on a socket that is not OPEN sends nothing
            /\ sent' = IF readyState[c] = "OPEN" THEN <<PingFrame(c)>> ELSE <<>>
            /\ UNCHANGED readyState
    /\ missed' = [missed EXCEPT ![c] = IF missed[c] < 2 THEN missed[c] + 1 ELSE 2]
    /\ parseCalls' = 0
    /\ last' = Other("tick", c)
    /\ UNCHANGED <<timers, clients, latestJson, pingInterval>>

\* a 'pong' handler that leaves the acknowledgment flag as it is
PongUnrecorded(c) ==
    /\ Serving
    /\ last = Idle
    /\ readyState[c] \in {"OPEN", "CLOSING"}
    /\ missed' = [missed EXCEPT ![c] = 0]
    /\ sent' = <<>>
    /\ parseCalls' = 0
    /\ last' = Other("pong", c)
    /\ UNCHANGED <<timers, readyState, clients, latestJson, isAlive, pingInterval>>

\* ws.on('pong')
Pong(c) ==
    /\ Serving
    /\ last = Idle
    /\ readyState[c] \in {"OPEN", "CLOSING"}
    /\ isAlive' = [isAlive EXCEPT ![c] = TRUE]
    /\ missed' = [missed EXCEPT ![c] = 0]
    /\ sent' = <<>>
    /\ parseCalls' = 0
    /\ last' = Other("pong", c)
    /\ UNCHANGED <<timers, readyState, clients, latestJson, pingInterval>>

\* the peer starts the closing handshake: the socket is CLOSING, no handler runs
PeerClose(c) ==
    /\ Serving
    /\ last = Idle
    /\ readyState[c] = "OPEN"
    /\ readyState' = [readyState EXCEPT ![c] = "CLOSING"]
    /\ sent' = <<>>
    /\ parseCalls' = 0
    /\ last' = Other("peerclose", c)
    /\ UNCHANGED <<timers, clients, latestJson, isAlive, pingInterval,
                   missed>>

\* ws.on('error'): ws.terminate()
SocketError(c) ==
    /\ Serving
    /\ last = Idle
    /\ readyState[c] \in {"OPEN", "CLOSING"}
    /\ readyState' = Terminate(readyState, c)
    /\ sent' = <<>>
    /\ parseCalls' = 0
    /\ last' = Other("error", c)
    /\ UNCHANGED <<timers, clients, latestJson, isAlive, pingInterval,
                   missed>>

\* a 'close' event that leaves the socket in wss.clients
CloseKeepingClient(c) ==
    /\ Serving
    /\ last = Idle
    /\ readyState[c] \in {"OPEN", "CLOSING"}
    /\ readyState' = [readyState EXCEPT ![c] = "CLOSED"]
    /\ pingInterval' = [pingInterval EXCEPT ![c] = FALSE]
    /\ sent' = <<>>
    /\ parseCalls' = 0
    /\ missed' = [missed EXCEPT ![c] = 0]
    /\ last' = Other("close", c)
    /\ UNCHANGED <<timers, clients, latestJson, isAlive>>

\* a 'close' event whose handler leaves the timer running
CloseKeepingTimer(c) ==
    /\ Serving
    /\ last = Idle
    /\ readyState[c] \in {"OPEN", "CLOSING"}
    /\ readyState' = [readyState EXCEPT ![c] = "CLOSED"]
    /\ clients' = RemoveClient(clients, c)
    /\ sent' = <<>>
    /\ parseCalls' = 0
    /\ missed' = [missed EXCEPT ![c] = 0]
    /\ last' = Other("close", c)
    /\ UNCHANGED <<timers, latestJson, isAlive, pingInterval>>

\* the 'close' event: the socket is CLOSED, ws takes it out of wss.clients and
\* the handlers run: clearInterval(pingInterval)
Close(c) ==
    /\ Serving
    /\ last = Idle
    /\ readyState[c] \in {"OPEN", "CLOSING"}
    /\ readyState' = [readyState EXCEPT ![c] = "CLOSED"]
    /\ clients' = RemoveClient(clients, c)
    /\ pingInterval' = [pingInterval EXCEPT ![c] = FALSE]
    /\ sent' = <<>>
    /\ parseCalls' = 0
    /\ missed' = [missed EXCEPT ![c] = 0]
    /\ last' = Other("close", c)
    /\ UNCHANGED <<timers, latestJson, isAlive>>

\* what a startup step leaves alone
StartupFrame ==
    UNCHANGED <<timers, readyState, clients, latestJson, isAlive, pingInterval, sent,
                parseCalls, last, missed>>

\* server.listen binds the port; its callback logs
Listen ==
    /\ process.state = "starting"
    /\ process' = [process EXCEPT !.state = "listening"]
    /\ StartupFrame

\* server.listen(...).on('error'): the port cannot be bound; process.exit(1)
ListenError ==
    /\ process.state = "starting"
    /\ process' = Exited(process, 1, "bind")
    /\ StartupFrame

\* the handler has returned: the sockets take the frames it handed to send() and
\* ping(), and the event loop waits for the next event
Drain ==
    /\ last # Idle
    /\ sent' = <<>>
    /\ parseCalls' = 0
    /\ last' = Idle
    /\ UNCHANGED <<timers, readyState, clients, latestJson, isAlive, pingInterval, missed,
                   process>>

\* a status report that never shows the cache
StatusResponseEmpty == [status |-> "ok", connections |-> Len(clients), latestJson |-> JNull]

\* GET /status
StatusResponse == [status |-> "ok", connections |-> Len(clients), latestJson |-> latestJson]

Next ==
    \/ \E c \in Sockets : \E ms \in (IF Truthy(latestJson) THEN Clock ELSE {0}) :
         Connection(c, ms)
    \/ \E c \in Sockets, m \in Messages :
         \E ms \in ClockOf(m), env \in NodeEnvOf(m), failing \in FailingSets(m) :
            Message(c, m, failing, ms, env)
    \/ \E c \in Sockets : PingTick(c)
    \/ \E c \in Sockets : Pong(c)
    \/ \E c \in Sockets : PeerClose(c)
    \/ \E c \in Sockets : SocketError(c)
    \/ \E c \in Sockets : Close(c)
    \/ Drain
    \/ Listen
    \/ ListenError

Spec == Init /\ [][Next]_vars

(***************************************************************************)
(* The origin-checking revision, server.js lines 1-148.  There is no       *)
(* heartbeat and no size limit; the broadcast skips the sender and its     *)
(* sends are not guarded one by one.                                       *)
(***************************************************************************)
InitOrigin == InitOf(OriginConns, "origin")

\* An origin is a string, kept as the sequence of its parts: a scheme, a host
\* with its port, a path.  No part is a prefix of another part, so one string
\* starts with another exactly when its parts start with the other's parts.
Origin(parts) == JStr(parts)
Schemes == {"http://", "https://"}
LocalDev == Origin(<<"http://", "localhost:3000">>)
Frontend == Origin(<<"https://", "excel-sheet-analyser-1.onrender.com">>)
Streamlit ==
    Origin(<<"https://",
             "sakethvetcha-analyser-python-json-convertor-u1j0sm.streamlit.app", "/">>)

\* const allowedOrigins = [...]
allowedOrigins == <<LocalDev, Frontend, Streamlit>>

\* what the Origin header of an upgrade request may hold: nothing, an entry of
\* allowedOrigins, the origin a browser sends for the Streamlit page (no path),
\* a foreign site, and two strings that only begin like an allowed host
Origins ==
    {Undefined, LocalDev, Frontend,
     Origin(<<"https://",
              "sakethvetcha-analyser-python-json-convertor-u1j0sm.streamlit.app">>),
     Origin(<<"https://", "evil.example">>),
     Origin(<<"localhost:3000", ".evil.example">>),
     Origin(<<"excel-sheet-analyser-1.onrender.com">>)}

\* allowed.replace(/https?:\/\//, ''): the first scheme of the string is removed
RECURSIVE replaceScheme(_)
replaceScheme(parts) ==
    IF parts = <<>> THEN <<>>
    ELSE IF Head(parts) \in Schemes THEN Tail(parts)
    ELSE <<Head(parts)>> \o replaceScheme(Tail(parts))

\* String.prototype.startsWith
startsWith(parts, prefix) ==
    /\ Len(prefix) <= Len(parts)
    /\ SubSeq(parts, 1, Len(prefix)) = prefix

\* allowedOrigins.some(allowed => origin === allowed ||
\*                                origin?.startsWith(allowed.replace(...)))
isAllowed(origin) ==
    \E i \in 1..Len(allowedOrigins) :
       \/ origin = allowedOrigins[i]
       \/ /\ origin # Undefined
          /\ startsWith(origin.s, replaceScheme(allowedOrigins[i].s))

\* verifyClient: done(true), or done(false, 401, 'Unauthorized')
verifyClient(origin, env) == isAllowed(origin) \/ env # "production"

\* if (latestJson) ws.send(JSON.stringify(latestJson))
OriginOnConnection(ws, cache) ==
    IF Truthy(cache) THEN <<TextFrame(ws, Stringify(cache), FALSE)>> ELSE <<>>

\* an upgrade request with the given Origin header: verifyClient, and for an
\* accepted request wss.on('connection').  A refused request is answered 401
\* and no WebSocket is made of it.  The step records the origin as what was
\* received.
OriginConnection(c, origin, env) ==
    /\ Serving
    /\ last = Idle
    /\ NextConn(c)
    /\ IF verifyClient(origin, env)
       THEN /\ readyState' = [readyState EXCEPT ![c] = "OPEN"]
            /\ clients' = Append(clients, c)
            /\ sent' = OriginOnConnection(c, latestJson)
       ELSE /\ sent' = <<>>
            /\ UNCHANGED <<readyState, clients>>
    /\ parseCalls' = 0
    /\ last' = Event("connection", c, origin, 0, env, verifyClient(origin, env))
    /\ UNCHANGED <<timers, latestJson, isAlive, pingInterval, missed>>

\* { error: 'Invalid message format', details: error.message }
OriginErrorPayload(message) ==
    JObj(<<Member("error", JStr("Invalid message format")),
           Member("details", JStr(message))>>)

\* wss.clients.forEach: every OPEN client but the sender is sent data, until a
\* send throws; threw tells whether one did
RECURSIVE OriginBroadcast(_, _, _, _, _)
OriginBroadcast(cs, ws, rs, data, failing) ==
    IF cs = <<>> THEN [sent |-> <<>>, threw |-> FALSE]
    ELSE IF Head(cs) = ws \/ rs[Head(cs)] # "OPEN"
    THEN OriginBroadcast(Tail(cs), ws, rs, data, failing)
    ELSE IF Head(cs) \in failing
    THEN [sent |-> <<TextFrame(Head(cs), data, TRUE)>>, threw |-> TRUE]
    ELSE [sent |-> <<TextFrame(Head(cs), data, FALSE)>>
                     \o OriginBroadcast(Tail(cs), ws, rs, data, failing).sent,
          threw |-> OriginBroadcast(Tail(cs), ws, rs, data, failing).threw]

\* the catch branch: ws.send of the error payload; a socket that is not OPEN
\* gets nothing
OriginCatch(ws, rs, message) ==
    IF rs[ws] = "OPEN"
    THEN <<TextFrame(ws, Stringify(OriginErrorPayload(message)), FALSE)>>
    ELSE <<>>

\* ws.on('message'): what the handler leaves behind
OriginOnMessage(ws, m, failing, rs, cs, cache) ==
    IF ParseOf[m] = SyntaxError
    THEN [latestJson |-> cache, accepted |-> FALSE,
          sent |-> OriginCatch(ws, rs, "Unexpected token in JSON")]
    ELSE IF TypeOf(ParseOf[m]) # "object" \/ ParseOf[m] = JNull
    THEN [latestJson |-> cache, accepted |-> FALSE,
          sent |-> OriginCatch(ws, rs, "Invalid JSON structure")]
    ELSE [latestJson |-> ParseOf[m], accepted |-> TRUE,
          sent |-> OriginBroadcast(cs, ws, rs, Stringify(ParseOf[m]), failing).sent
                   \o (IF OriginBroadcast(cs, ws, rs, <<>>, failing).threw
                       THEN OriginCatch(ws, rs, "send failed") ELSE <<>>)]

\* the sets of clients whose send may throw while m of connection ws is handled
OriginFailingSets(ws, m) ==
    IF ~OriginOnMessage(ws, m, {}, readyState, clients, latestJson).accepted THEN {{}}
    ELSE {f \in SUBSET {c \in Sockets : c # ws /\ readyState[c] = "OPEN" /\ InClients(c)} :
            Cardinality(f) <= MaxFailing}

\* a 'message' event of connection c
OriginMessage(c, m, failing) ==
    /\ Serving
    /\ last = Idle
    /\ readyState[c] \in {"OPEN", "CLOSING"}
    /\ \E r \in {OriginOnMessage(c, m, failing, readyState, clients, latestJson)} :
         /\ latestJson' = r.latestJson
         /\ sent' = r.sent
         /\ last' = Event("message", c, m, 0, "", r.accepted)
    /\ parseCalls' = 1
    /\ UNCHANGED <<timers, readyState, clients, isAlive, pingInterval, missed>>

\* ws.on('error') logs; the socket that had the error is closing
OriginSocketError(c) ==
    /\ Serving
    /\ last = Idle
    /\ readyState[c] \in {"OPEN", "CLOSING"}
    /\ readyState' = [readyState EXCEPT ![c] = "CLOSING"]
    /\ sent' = <<>>
    /\ parseCalls' = 0
    /\ last' = Other("error", c)
    /\ UNCHANGED <<timers, clients, latestJson, isAlive, pingInterval, missed>>

\* the 'close' event: the socket is CLOSED, ws takes it out of wss.clients and
\* the handler logs
OriginClose(c) ==
    /\ Serving
    /\ last = Idle
    /\ readyState[c] \in {"OPEN", "CLOSING"}
    /\ readyState' = [readyState EXCEPT ![c] = "CLOSED"]
    /\ clients' = RemoveClient(clients, c)
    /\ sent' = <<>>
    /\ parseCalls' = 0
    /\ last' = Other("close", c)
    /\ UNCHANGED <<timers, latestJson, isAlive, pingInterval, missed>>

\* server.listen binds the port; its callback logs
OriginListen ==
    /\ process.state = "starting"
    /\ process' = [process EXCEPT !.state = "listening"]
    /\ StartupFrame

\* server.listen(...).on('error'): the port cannot be bound; the handler logs
\* and returns, and the process is left without a listener
OriginListenError ==
    /\ process.state = "starting"
    /\ process' = [process EXCEPT !.state = "failed"]
    /\ StartupFrame

\* a process that failed to bind has no server, socket or timer left: Node ends
\* it, with exit status 0, once the event loop is empty
EventLoopEmpty ==
    /\ process.state = "failed"
    /\ process' = Exited(process, 0, "bind")
    /\ StartupFrame

NextOrigin ==
    \/ \E c \in Sockets, origin \in Origins, env \in NodeEnvs :
         OriginConnection(c, origin, env)
    \/ \E c \in Sockets, m \in Messages :
         \E failing \in OriginFailingSets(c, m) : OriginMessage(c, m, failing)
    \/ \E c \in Sockets : PeerClose(c)
    \/ \E c \in Sockets : OriginSocketError(c)
    \/ \E c \in Sockets : OriginClose(c)
    \/ Drain
    \/ OriginListen
    \/ OriginListenError
    \/ EventLoopEmpty

SpecOrigin == InitOrigin /\ [][NextOrigin]_vars

(***************************************************************************)
(* The deferred-broadcast revision, part_002 lines 1-211.  Its validation, *)
(* receipt, connection, close and startup code is that of the heartbeat    *)
(* revision; its broadcast sets one timer per client and sends from the    *)
(* timer's callback.  The timers of the heartbeat are left out here.       *)
(***************************************************************************)
InitDeferred == InitOf(Conns, "deferred")

\* JSON.parse(JSON.stringify(value))
DeepClone(value) == JSONparse(Stringify(value))

\* clients.forEach over Array.from(wss.clients): a setTimeout callback for each
\* client that is OPEN, closed over client and broadcastData.  msg and ms name
\* the message whose handler set the timer.
SetTimeouts(cs, rs, broadcastData, m, ms) ==
    [i \in 1..Len(SelectSeq(cs, LAMBDA c : rs[c] = "OPEN")) |->
        [to |-> SelectSeq(cs, LAMBDA c : rs[c] = "OPEN")[i],
         data |-> broadcastData, msg |-> m, ms |-> ms]]

\* ws.on('message'): what the handler leaves behind, and the timers it sets
DeferredOnMessage(ws, m, rs, cs, cache, ms, env) ==
    IF Validate(m).error # ""
    THEN [latestJson |-> cache,
          sent |-> Reject(ws, rs, cache, env, Validate(m).error, 0).sent,
          timers |-> <<>>,
          parseCalls |-> Validate(m).parses,
          accepted |-> FALSE]
    ELSE [latestJson |-> ReceiptOf[m][ms],
          sent |-> <<>>,
          timers |-> SetTimeouts(cs, rs, DeepClone(ReceiptOf[m][ms]), m, ms),
          parseCalls |-> 2,
          accepted |-> TRUE]

\* a 'message' event whose timers run before the timers set earlier
DeferredMessagePrepending(c, m, ms, env) ==
    /\ Serving
    /\ last = Idle
    /\ readyState[c] \in {"OPEN", "CLOSING"}
    /\ \E r \in {DeferredOnMessage(c, m, readyState, clients, latestJson, ms, env)} :
         /\ Len(timers) + Len(r.timers) <= MaxTimers
         /\ latestJson' = r.latestJson
         /\ sent' = r.sent
         /\ timers' = r.timers \o timers
         /\ parseCalls' = r.parseCalls
         /\ last' = Event("message", c, m, ms, env, r.accepted)
    /\ UNCHANGED <<readyState, clients, isAlive, pingInterval, missed>>

\* a 'message' event of connection c; a message is taken only while the timers
\* it sets fit in the queue
DeferredMessage(c, m, ms, env) ==
    /\ Serving
    /\ last = Idle
    /\ readyState[c] \in {"OPEN", "CLOSING"}
    /\ \E r \in {DeferredOnMessage(c, m, readyState, clients, latestJson, ms, env)} :
         /\ Len(timers) + Len(r.timers) <= MaxTimers
         /\ latestJson' = r.latestJson
         /\ sent' = r.sent
         /\ timers' = timers \o r.timers
         /\ parseCalls' = r.parseCalls
         /\ last' = Event("message", c, m, ms, env, r.accepted)
    /\ UNCHANGED <<readyState, clients, isAlive, pingInterval, missed>>

\* a timer callback that serializes the cache as it is when the timer runs
DeferredSendReadingCache(threw) ==
    /\ Serving
    /\ last = Idle
    /\ timers # <<>>
    /\ sent' = <<TextFrame(Head(timers).to, Stringify(latestJson), threw)>>
    /\ readyState' = IF threw /\ readyState[Head(timers).to] = "OPEN"
                     THEN Terminate(readyState, Head(timers).to)
                     ELSE readyState
    /\ timers' = Tail(timers)
    /\ parseCalls' = 0
    /\ last' = Event("timer", Head(timers).to, Head(timers).msg, Head(timers).ms, "", TRUE)
    /\ UNCHANGED <<clients, latestJson, isAlive, pingInterval, missed>>

\* the setTimeout callback that was set first: client.send of the serialized
\* broadcastData, whatever the socket's state is by now.  A send that throws
\* on an OPEN client terminates it.  The frame handed to a socket that is no
\* longer OPEN is never transmitted: send throws or drops it, as the version
\* of ws decides, and the catch does not terminate the client.
DeferredSend(threw) ==
    /\ Serving
    /\ last = Idle
    /\ timers # <<>>
    /\ sent' = <<TextFrame(Head(timers).to, Stringify(Head(timers).data), threw)>>
    /\ readyState' = IF threw /\ readyState[Head(timers).to] = "OPEN"
                     THEN Terminate(readyState, Head(timers).to)
                     ELSE readyState
    /\ timers' = Tail(timers)
    /\ parseCalls' = 0
    /\ last' = Event("timer", Head(timers).to, Head(timers).msg, Head(timers).ms, "", TRUE)
    /\ UNCHANGED <<clients, latestJson, isAlive, pingInterval, missed>>

\* the messages received in a run of this revision: a text that is not JSON and
\* two objects that share no property
DeferredMessages == {Msg(TextNotJson, 1), Msg(TextX, 0), Msg(TextStrMeta, 0)}

NextDeferred ==
    \/ \E c \in Sockets : \E ms \in (IF Truthy(latestJson) THEN Clock ELSE {0}) :
         Connection(c, ms)
    \* the receipts of a run are all stamped with the same reading of the clock:
    \* the values accepted differ by their payloads
    \/ \E c \in Sockets, m \in DeferredMessages :
         \E ms \in {0}, env \in NodeEnvOf(m) : DeferredMessage(c, m, ms, env)
    \/ \E threw \in BOOLEAN : DeferredSend(threw)
    \/ \E c \in Sockets : PeerClose(c)
    \/ \E c \in Sockets : SocketError(c)
    \/ \E c \in Sockets : Close(c)
    \/ Drain
    \/ Listen
    \/ ListenError

SpecDeferred == InitDeferred /\ [][NextDeferred]_vars

\* a run of the heartbeat revision or of the deferred-broadcast revision
InitBroadcasts == Init \/ InitDeferred

NextBroadcasts ==
    \/ process.revision = "heartbeat" /\ Next
    \/ process.revision = "deferred" /\ NextDeferred

SpecBroadcasts == InitBroadcasts /\ [][NextBroadcasts]_vars

(***************************************************************************)
(* The revision of part_001: no validation, no greeting, no handler of     *)
(* 'error' events or of uncaught exceptions, and an HTTP route that shows  *)
(* the cache.                                                              *)
(***************************************************************************)
InitP1 == InitOf(Conns, "part_001")

\* the messages received in a run of this revision
P1Messages ==
    {Msg(TextNotJson, 1), Msg(TextScalar, 0), Msg(TextNull, 0), Msg(TextArray, 0),
     Msg(TextX, 0)}

\* try { latestJson = JSON.parse(message) } catch (e) { latestJson = { raw: message } }
P1Latest(m) ==
    IF ParseOf[m] = SyntaxError THEN JObj(<<Member("raw", JStr(m))>>) ELSE ParseOf[m]

\* app.get('/'): the cache as JSON text (its indentation is white space, which
\* a text does not keep), or 404 when the cache is falsy
GetRoot ==
    IF Truthy(latestJson)
    THEN [status |-> 200, body |-> Stringify(latestJson)]
    ELSE [status |-> 404,
          body |-> Stringify(JObj(<<Member("error", JStr("No data received yet"))>>))]

\* wss.on('connection') logs and installs the message handler
P1Connection(c) ==
    /\ Serving
    /\ last = Idle
    /\ NextConn(c)
    /\ readyState' = [readyState EXCEPT ![c] = "OPEN"]
    /\ clients' = Append(clients, c)
    /\ sent' = <<>>
    /\ parseCalls' = 0
    /\ last' = Other("connection", c)
    /\ UNCHANGED <<timers, latestJson, isAlive, pingInterval, missed>>

\* ws.on('message'): the cache is set and the message is sent as received to
\* every OPEN client but the sender.  A send that throws leaves the handler:
\* nothing catches the exception and Node ends the process.
P1Message(c, m, failing) ==
    /\ process.state = "listening"
    /\ last = Idle
    /\ readyState[c] \in {"OPEN", "CLOSING"}
    /\ latestJson' = P1Latest(m)
    /\ sent' = OriginBroadcast(clients, c, readyState, m.toks, failing).sent
    /\ process' = IF OriginBroadcast(clients, c, readyState, m.toks, failing).threw
                  THEN Exited(process, 1, "uncaughtException")
                  ELSE process
    /\ parseCalls' = 1
    /\ last' = Event("message", c, m, 0, "", TRUE)
    /\ UNCHANGED <<timers, readyState, clients, isAlive, pingInterval, missed>>

\* the sets of clients whose send may throw while a message of ws is handled
P1FailingSets(ws) ==
    {f \in SUBSET {c \in Sockets : c # ws /\ readyState[c] = "OPEN" /\ InClients(c)} :
        Cardinality(f) <= MaxFailing}

\* an 'error' event of a socket: no listener is installed, so the event is
\* thrown, nothing catches it and Node ends the process
P1SocketError(c) ==
    /\ process.state = "listening"
    /\ last = Idle
    /\ readyState[c] \in {"OPEN", "CLOSING"}
    /\ process' = Exited(process, 1, "uncaughtException")
    /\ readyState' = [readyState EXCEPT ![c] = "CLOSING"]
    /\ sent' = <<>>
    /\ parseCalls' = 0
    /\ last' = Other("error", c)
    /\ UNCHANGED <<timers, clients, latestJson, isAlive, pingInterval, missed>>

\* the 'close' event: the socket is CLOSED and ws takes it out of wss.clients
P1Close(c) ==
    /\ Serving
    /\ last = Idle
    /\ readyState[c] \in {"OPEN", "CLOSING"}
    /\ readyState' = [readyState EXCEPT ![c] = "CLOSED"]
    /\ clients' = RemoveClient(clients, c)
    /\ sent' = <<>>
    /\ parseCalls' = 0
    /\ last' = Other("close", c)
    /\ UNCHANGED <<timers, latestJson, isAlive, pingInterval, missed>>

\* server.listen binds the port; its callback logs
P1Listen ==
    /\ process.state = "starting"
    /\ process' = [process EXCEPT !.state = "listening"]
    /\ StartupFrame

\* the port cannot be bound: the server's 'error' event has no listener, is
\* thrown and ends the process
P1ListenError ==
    /\ process.state = "starting"
    /\ process' = Exited(process, 1, "bind")
    /\ StartupFrame

NextP1 ==
    \/ \E c \in Sockets : P1Connection(c)
    \/ \E c \in Sockets, m \in P1Messages :
         \E failing \in P1FailingSets(c) : P1Message(c, m, failing)
    \/ \E c \in Sockets : PeerClose(c)
    \/ \E c \in Sockets : P1SocketError(c)
    \/ \E c \in Sockets : P1Close(c)
    \/ Drain
    \/ P1Listen
    \/ P1ListenError

SpecP1 == InitP1 /\ [][NextP1]_vars

(***************************************************************************)
(* The startup of the revision of part_005, and the run of any one of the  *)
(* revisions.                                                              *)
(***************************************************************************)
InitP5 == InitOf(Conns, "part_005")

\* server.listen binds the port; its callback logs the port and then reads
\* allowedOrigins, which this revision does not declare: the ReferenceError is
\* an uncaught exception, whose handler calls process.exit(1)
P5Listen ==
    /\ process.state = "starting"
    /\ process' = Exited(process, 1, "uncaughtException")
    /\ StartupFrame

\* server.listen(...).on('error'): the port cannot be bound; the handler logs
P5ListenError ==
    /\ process.state = "starting"
    /\ process' = [process EXCEPT !.state = "failed"]
    /\ StartupFrame

NextP5 ==
    \/ P5Listen
    \/ P5ListenError
    \/ EventLoopEmpty

InitRevisions == Init \/ InitOrigin \/ InitP5

NextRevisions ==
    \/ process.revision = "heartbeat" /\ Next
    \/ process.revision = "origin" /\ NextOrigin
    \/ process.revision = "part_005" /\ NextP5

SpecRevisions == InitRevisions /\ [][NextRevisions]_vars

(***************************************************************************)
(* Properties.  A handler's step is recognised by what it leaves in last;   *)
(* the unprimed variables are the state the handler started in.            *)
(***************************************************************************)

\* the property names of a value
KeysOf(v) == {OwnProperties(v)[i].k : i \in 1..Len(OwnProperties(v))}

\* every property of p but k has the same value in q
KeepsMembers(p, q, k) == \A j \in KeysOf(p) \ {k} : GetProperty(q, j) = GetProperty(p, j)

\* q is p with receivedAt = ts added to p's _meta, where p's _meta is an object
\* or absent: nothing of p is lost
PlusReceipt(p, q, ts) ==
    /\ q.t = "obj"
    /\ KeysOf(q) = KeysOf(p) \cup {"_meta"}
    /\ KeepsMembers(p, q, "_meta")
    /\ GetProperty(q, "_meta").t = "obj"
    /\ GetProperty(GetProperty(q, "_meta"), "receivedAt") = JStr(ts)
    /\ GetProperty(p, "_meta").t \in {"undefined", "obj"}
    /\ KeysOf(GetProperty(q, "_meta")) = KeysOf(GetProperty(p, "_meta")) \cup {"receivedAt"}
    /\ KeepsMembers(GetProperty(p, "_meta"), GetProperty(q, "_meta"), "receivedAt")

\* q is p with its _meta replaced by an object that holds the own properties of
\* p's _meta (none for a number, a boolean or null, the characters of a string)
\* and receivedAt = ts
MergesReceipt(p, q, ts) ==
    /\ q.t = "obj"
    /\ KeysOf(q) = KeysOf(p) \cup {"_meta"}
    /\ KeepsMembers(p, q, "_meta")
    /\ GetProperty(q, "_meta").t = "obj"
    /\ GetProperty(GetProperty(q, "_meta"), "receivedAt") = JStr(ts)
    /\ KeysOf(GetProperty(q, "_meta")) = KeysOf(GetProperty(p, "_meta")) \cup {"receivedAt"}
    /\ KeepsMembers(GetProperty(p, "_meta"), GetProperty(q, "_meta"), "receivedAt")

\* g is the value v with its _meta replaced by { timestamp: ts }
ReplacesMeta(v, g, ts) ==
    /\ g.t = "obj"
    /\ KeysOf(g) = KeysOf(v) \cup {"_meta"}
    /\ KeepsMembers(v, g, "_meta")
    /\ GetProperty(g, "_meta") = JObj(<<Member("timestamp", JStr(ts))>>)

\* the text of m parses to an object that is not an array / to an array / not
\* at all or to a scalar or null
IsObjectText(m) == ParseOf[m] # SyntaxError /\ ParseOf[m].t = "obj"
IsArrayText(m) == ParseOf[m] # SyntaxError /\ ParseOf[m].t = "arr"
IsMalformedOrScalar(m) == ParseOf[m] = SyntaxError \/ ParseOf[m].t \notin {"obj", "arr"}

\* frame f delivers a serialization of value v to connection c
Delivers(f, c, v) ==
    f.to = c /\ f.kind = "text" /\ ~f.threw /\ JSONparse(f.data) = v

\* frame f is an error response
IsErrorFrame(f) ==
    /\ f.kind = "text" /\ ~f.threw
    /\ JSONparse(f.data) # SyntaxError
    /\ JSONparse(f.data).t = "obj"
    /\ GetProperty(JSONparse(f.data), "error") = JStr("Invalid message format")

\* frames is exactly one error response, to connection c
OnlyErrorTo(frames, c) == Len(frames) = 1 /\ frames[1].to = c /\ IsErrorFrame(frames[1])

\* C1 as stated: when the handler of a message from an OPEN connection, within
\* the size limit and parsing to an object P, finishes, the cache is P plus
\* _meta.receivedAt, nothing of P lost, and every other connection that is OPEN
\* has been sent a serialization of the cache.
C1_CacheIsPayloadPlusReceipt ==
    [][(/\ last'.op = "message"
        /\ readyState[last'.c] = "OPEN"
        /\ LengthOf[last'.msg] <= MAX_PAYLOAD_SIZE
        /\ IsObjectText(last'.msg))
       => /\ PlusReceipt(ParseOf[last'.msg], latestJson', toISOString(last'.ms))
          /\ \A d \in Sockets \ {last'.c} :
                readyState'[d] = "OPEN"
                => \E i \in 1..Len(sent') : Delivers(sent'[i], d, latestJson')]_vars

\* C1 amended: the cache is P with its _meta replaced by the merge of P's _meta
\* and receivedAt (every other member of P kept; the members of P's _meta kept
\* when it is an object, a string _meta spread into its characters, a scalar
\* _meta dropped), and every other connection that is OPEN when the handler
\* finishes has been sent a serialization of exactly that cache.
C1_CacheMergesReceipt ==
    [][(/\ last'.op = "message"
        /\ readyState[last'.c] = "OPEN"
        /\ LengthOf[last'.msg] <= MAX_PAYLOAD_SIZE
        /\ IsObjectText(last'.msg))
       => /\ MergesReceipt(ParseOf[last'.msg], latestJson', toISOString(last'.ms))
          /\ \A d \in Sockets \ {last'.c} :
                readyState'[d] = "OPEN"
                => \E i \in 1..Len(sent') : Delivers(sent'[i], d, latestJson')]_vars

\* an object with an object _meta has been accepted from an OPEN connection and
\* delivered to another OPEN connection
C1_Witness ==
    /\ last.op = "message" /\ last.accepted
    /\ IsObjectText(last.msg)
    /\ GetProperty(ParseOf[last.msg], "_meta").t = "obj"
    /\ readyState[last.c] = "OPEN"
    /\ GetProperty(GetProperty(latestJson, "_meta"), "v") = JNum(1)
    /\ \E d \in Sockets \ {last.c} :
          /\ readyState[d] = "OPEN"
          /\ \E i \in 1..Len(sent) : Delivers(sent[i], d, latestJson)

\* C2: a message that is not JSON, or parses to a scalar or to null, leaves the
\* cache as it was, sends nothing to any connection but the sender, and sends
\* the sender exactly one error payload if it is OPEN (nothing otherwise).
C2_MalformedOnlyAnswersSender ==
    [][(last'.op = "message" /\ IsMalformedOrScalar(last'.msg))
       => /\ latestJson' = latestJson
          /\ \A i \in 1..Len(sent') : sent'[i].to = last'.c
          /\ IF readyState[last'.c] = "OPEN"
             THEN OnlyErrorTo(sent', last'.c)
             ELSE sent' = <<>>]_vars

\* a malformed or scalar message of an OPEN connection has been answered while
\* the cache held a value and another connection was OPEN
C2_Witness ==
    /\ last.op = "message" /\ IsMalformedOrScalar(last.msg)
    /\ OnlyErrorTo(sent, last.c)
    /\ Truthy(latestJson)
    /\ \E d \in Sockets \ {last.c} : readyState[d] = "OPEN"

\* C3 as stated: a message of an OPEN connection that parses to an array is
\* rejected: the cache is unchanged and the only frame sent is an error
\* response to the sender.
C3_ArrayRejected ==
    [][(last'.op = "message" /\ IsArrayText(last'.msg) /\ readyState[last'.c] = "OPEN")
       => /\ latestJson' = latestJson
          /\ OnlyErrorTo(sent', last'.c)]_vars

\* C4 as stated: a message of an OPEN connection whose size in bytes exceeds
\* MAX_PAYLOAD_SIZE is not parsed, leaves the cache unchanged, and the only
\* frame sent is an error response to the sender.
C4_OversizeNotParsed ==
    [][(/\ last'.op = "message"
        /\ BytesOf[last'.msg] > MAX_PAYLOAD_SIZE
        /\ readyState[last'.c] = "OPEN")
       => /\ parseCalls' = 0
          /\ latestJson' = latestJson
          /\ OnlyErrorTo(sent', last'.c)]_vars

\* C5: a rejection leaves every socket's readyState, the registry, every
\* liveness flag and every timer as they were, and the handler, run in the
\* state the rejection leaves, accepts any valid object from the same
\* connection and delivers it to that connection's peers.
C5_RejectionKeepsConnection ==
    [][(last'.op = "message" /\ ~last'.accepted)
       => /\ readyState' = readyState
          /\ clients' = clients
          /\ isAlive' = isAlive
          /\ pingInterval' = pingInterval
          /\ \A m \in Messages :
                (IsObjectText(m) /\ BytesOf[m] <= MAX_PAYLOAD_SIZE)
                => LET r == OnMessage(last'.c, m, {}, readyState', clients', latestJson',
                                      0, "production")
                   IN  /\ r.accepted
                       /\ r.rs = readyState
                       /\ \A d \in Sockets :
                             readyState[d] = "OPEN"
                             => \E i \in 1..Len(r.sent) : r.sent[i].to = d]_vars

\* the message of an OPEN connection has been rejected while another message
\* was cached: the connection is still OPEN, registered and probed
C5_Witness ==
    /\ last.op = "message" /\ ~last.accepted
    /\ readyState[last.c] = "OPEN"
    /\ InClients(last.c)
    /\ pingInterval[last.c] /\ isAlive[last.c]
    /\ Truthy(latestJson)
    /\ OnlyErrorTo(sent, last.c)

\* C6 as stated: on a connection made while the cache is non-empty the one
\* frame sent is the value /status reports as latestJson.
C6_GreetingIsCache ==
    [][(last'.op = "connection" /\ Truthy(latestJson))
       => /\ Len(sent') = 1
          /\ Delivers(sent'[1], last'.c, StatusResponse.latestJson)]_vars

\* C6 amended: on a connection made while the cache is non-empty the one frame
\* sent is the cached value with its _meta replaced by { timestamp: time of the
\* connection }; while the cache is empty nothing is sent; and no frame goes to
\* a connection before its connection handler has run, so the greeting comes
\* before any broadcast.
C6_GreetingReplacesMeta ==
    [][/\ last'.op = "connection"
          => IF Truthy(latestJson)
             THEN /\ Len(sent') = 1
                  /\ sent'[1].to = last'.c /\ sent'[1].kind = "text" /\ ~sent'[1].threw
                  /\ JSONparse(sent'[1].data) # SyntaxError
                  /\ ReplacesMeta(latestJson, JSONparse(sent'[1].data),
                                  toISOString(last'.ms))
             ELSE sent' = <<>>
       /\ \A i \in 1..Len(sent') :
             readyState[sent'[i].to] = "NONE"
             => last'.op = "connection" /\ last'.c = sent'[i].to]_vars

\* a connection was made while the cache held a value with a receipt
C6_Witness ==
    /\ last.op = "connection"
    /\ Truthy(latestJson)
    /\ GetProperty(GetProperty(latestJson, "_meta"), "receivedAt") # Undefined
    /\ Len(sent) = 1 /\ sent[1].to = last.c

\* C7: a tick that finds the previous probe unanswered terminates the
\* connection and sends no new probe; a connection that has seen two ticks
\* since it connected or last answered is not OPEN.
C7_UnansweredProbeTerminates ==
    [][\A c \in Sockets :
          /\ (last'.op = "tick" /\ last'.c = c /\ missed[c] >= 1)
             => readyState'[c] # "OPEN" /\ sent' = <<>>
          /\ missed'[c] >= 2 => readyState'[c] # "OPEN"]_vars

\* the second tick without a pong has terminated a connection
C7_Witness ==
    \E c \in Sockets :
       /\ last.op = "tick" /\ last.c = c
       /\ missed[c] = 2
       /\ readyState[c] = "CLOSING"

\* C8: when a send of a broadcast throws, every client that was OPEN has still
\* been handed the payload, the cache holds the accepted value, and exactly the
\* clients whose send threw have been terminated.
C8_SendFailureIsolated ==
    [][(/\ last'.op = "message" /\ last'.accepted
        /\ \E i \in 1..Len(sent') : sent'[i].threw)
       => /\ \A d \in Sockets :
                (readyState[d] = "OPEN" /\ InClients(d))
                => \E i \in 1..Len(sent') :
                      /\ sent'[i].to = d /\ sent'[i].kind = "text"
                      /\ JSONparse(sent'[i].data) = latestJson'
                      /\ IF sent'[i].threw
                         THEN readyState'[d] = "CLOSING"
                         ELSE readyState'[d] = "OPEN"
          /\ MergesReceipt(ParseOf[last'.msg], latestJson', toISOString(last'.ms))]_vars

\* a send threw and a client later in the same broadcast was still delivered to
C8_Witness ==
    /\ last.op = "message" /\ last.accepted
    /\ \E i, j \in 1..Len(sent) :
          /\ i < j
          /\ sent[i].threw /\ readyState[sent[i].to] = "CLOSING"
          /\ Delivers(sent[j], sent[j].to, latestJson)

\* C9 as stated, of the origin-checking revision: when a valid object is
\* accepted, every OPEN client but the sender is handed the payload even if a
\* send throws, and the sender is sent no error response.
C9_OriginSendFailureIsolated ==
    [][(last'.op = "message" /\ IsObjectText(last'.msg))
       => /\ \A d \in Sockets \ {last'.c} :
                (readyState[d] = "OPEN" /\ InClients(d))
                => \E i \in 1..Len(sent') : sent'[i].to = d
          /\ \A i \in 1..Len(sent') : ~IsErrorFrame(sent'[i])]_vars

\* C10 as stated: a connection is in the registry if and only if its socket is
\* OPEN.
C10_RegistryIffOpen ==
    \A c \in Sockets : InClients(c) <=> readyState[c] = "OPEN"

\* C10 amended: a connection is in the registry if and only if its socket is
\* OPEN or CLOSING: a terminated connection is counted until its close event is
\* processed, and /status reports the number of both.
C10_RegistryIffNotClosed ==
    /\ \A c \in Sockets : InClients(c) <=> readyState[c] \in {"OPEN", "CLOSING"}
    /\ StatusResponse.connections =
          Cardinality({c \in Sockets : readyState[c] \in {"OPEN", "CLOSING"}})

\* a tick has terminated a connection that is still in the registry
C10_Witness ==
    /\ last.op = "tick"
    /\ readyState[last.c] = "CLOSING"
    /\ InClients(last.c)
    /\ StatusResponse.connections >= 1

\* C11: GET /status reports as latestJson the value the last accepted message
\* stored (null before any is accepted: a value that is not null carries the
\* receipt of the message that stored it; the handler of an accepted message
\* stores its payload with the receipt, every other step leaves the reported
\* value as it was) and as connections the size of the registry; after {"x":1}
\* is accepted it reports latestJson.x = 1.
C11_StatusReportsLastAccepted ==
    [][LET response == StatusResponse'
       IN  /\ response.latestJson = latestJson'
           /\ response.connections = Cardinality({c \in Sockets : InClients(c)'})
           /\ IF last'.op = "message" /\ last'.accepted
              THEN /\ MergesReceipt(ParseOf[last'.msg], response.latestJson,
                                    toISOString(last'.ms))
                   /\ last'.msg = Msg(TextX, 0)
                      => GetProperty(response.latestJson, "x") = JNum(1)
              ELSE response.latestJson = StatusResponse.latestJson
           /\ \/ response.latestJson = JNull
              \/ GetProperty(GetProperty(response.latestJson, "_meta"), "receivedAt")
                    # Undefined]_vars

\* {"x":1} of the first of two registered connections has been accepted:
\* /status reports connections = 2 and latestJson.x = 1
C11_Witness ==
    /\ last.op = "message" /\ last.accepted
    /\ last.msg = Msg(TextX, 0) /\ last.c = 1
    /\ readyState = [c \in Sockets |-> "OPEN"]
    /\ StatusResponse.connections = 2
    /\ GetProperty(StatusResponse.latestJson, "x") = JNum(1)

\* C12 as stated: the process of any revision ends only because the port could
\* not be bound: once the port is bound, the listen callback and every handler
\* leave it running.
C12_OnlyBindFailureExits ==
    process.state = "exited" => process.cause = "bind"

C14_UnlistedOriginRefused ==
    [][(/\ last'.op = "connection"
        /\ last'.env = "production"
        /\ \A i \in 1..Len(allowedOrigins) : last'.msg # allowedOrigins[i])
       => /\ ~last'.accepted
          /\ \A i \in 1..Len(clients') : clients'[i] # last'.c
          /\ readyState'[last'.c] = "NONE"
          /\ sent' = <<>>]_vars

\* C15 as stated, of the origin-checking revision: when a message is accepted,
\* send is called with the payload for every client that is OPEN and is not the
\* sender, and no frame carrying the payload goes to the sender.
C15_EveryOtherClientIsSent ==
    [][(last'.op = "message" /\ last'.accepted)
       => /\ \A d \in Sockets \ {last'.c} :
                (readyState[d] = "OPEN" /\ InClients(d))
                => \E i \in 1..Len(sent') :
                      /\ sent'[i].to = d /\ sent'[i].kind = "text"
                      /\ JSONparse(sent'[i].data) = ParseOf[last'.msg]
          /\ \A i \in 1..Len(sent') :
                sent'[i].to = last'.c => JSONparse(sent'[i].data) # ParseOf[last'.msg]]_vars

\* the part of C15 that holds: the payload goes to no one but clients that are
\* OPEN and are not the sender, and when no send throws, to each of them
C15_SenderExcluded ==
    [][(last'.op = "message" /\ last'.accepted)
       => /\ \A i \in 1..Len(sent') :
                JSONparse(sent'[i].data) = ParseOf[last'.msg]
                => /\ sent'[i].to # last'.c
                   /\ readyState[sent'[i].to] = "OPEN"
                   /\ InClients(sent'[i].to)
          /\ (\A i \in 1..Len(sent') : ~sent'[i].threw)
             => \A d \in Sockets \ {last'.c} :
                   (readyState[d] = "OPEN" /\ InClients(d))
                   => \E i \in 1..Len(sent') : Delivers(sent'[i], d, ParseOf[last'.msg])]_vars

\* C16: a tick of a connection that has answered every probe so far (no tick
\* since it connected or since its last pong) does not terminate it and probes
\* it again; a tick changes the socket of its connection only when the
\* acknowledgment flag is false, and never the socket of another connection.
C16_AnsweringConnectionSurvives ==
    [][\A c \in Sockets :
          (last'.op = "tick" /\ last'.c = c)
          => /\ missed[c] = 0
                => /\ readyState'[c] = readyState[c]
                   /\ readyState[c] = "OPEN" => sent' = <<PingFrame(c)>>
             /\ readyState'[c] # readyState[c] => ~isAlive[c]
             /\ \A d \in Sockets \ {c} : readyState'[d] = readyState[d]]_vars

\* a tick has probed an OPEN connection that had nothing unanswered, while the
\* monitor has terminated another one that did not answer
C16_Witness ==
    \E c, d \in Sockets :
       /\ last.op = "tick" /\ last.c = c
       /\ readyState[c] = "OPEN" /\ missed[c] = 1 /\ ~isAlive[c]
       /\ sent = <<PingFrame(c)>>
       /\ d # c /\ missed[d] = 2 /\ readyState[d] = "CLOSING"

\* C17: the step that processes a connection's close event cancels its timer,
\* whatever state the socket was in; from then on the socket stays CLOSED, the
\* timer stays cancelled, no tick runs for the connection and no frame is
\* handed to it.
C17_ClosedConnectionHasNoTimer ==
    [][\A c \in Sockets :
          /\ (last'.op = "close" /\ last'.c = c)
             => readyState'[c] = "CLOSED" /\ ~pingInterval'[c]
          /\ readyState[c] = "CLOSED"
             => /\ ~pingInterval[c]
                /\ readyState'[c] = "CLOSED" /\ ~pingInterval'[c]
                /\ ~(last'.op = "tick" /\ last'.c = c)
                /\ \A i \in 1..Len(sent') : sent'[i].to # c]_vars

\* a tick has run for one connection after another, probed and never heard of
\* again, was closed and lost its timer
C17_Witness ==
    \E c, d \in Sockets :
       /\ c # d
       /\ readyState[c] = "CLOSED" /\ ~pingInterval[c] /\ ~isAlive[c]
       /\ last.op = "tick" /\ last.c = d /\ pingInterval[d]
       /\ sent = <<PingFrame(d)>>

\* C18: when a message of an OPEN connection is accepted, send is called for
\* the sender itself, the recipients are exactly the clients that were OPEN,
\* and every frame of the broadcast carries the same text, the serialization
\* of the cache.
C18_SenderIsEchoed ==
    [][(last'.op = "message" /\ last'.accepted /\ readyState[last'.c] = "OPEN")
       => /\ \E i \in 1..Len(sent') : sent'[i].to = last'.c
          /\ {sent'[i].to : i \in 1..Len(sent')}
                = {d \in Sockets : readyState[d] = "OPEN" /\ InClients(d)}
          /\ \A i \in 1..Len(sent') :
                /\ sent'[i].kind = "text"
                /\ sent'[i].data = Stringify(latestJson')
                /\ \A j \in 1..Len(sent') : sent'[j].data = sent'[i].data]_vars

\* an accepted message of an OPEN sender has been delivered to the sender and
\* to another client
C18_Witness ==
    /\ last.op = "message" /\ last.accepted
    /\ \E i, j \in 1..Len(sent) :
          /\ sent[i].to = last.c /\ sent[j].to # last.c
          /\ Delivers(sent[i], last.c, latestJson)
          /\ Delivers(sent[j], sent[j].to, latestJson)
          /\ readyState[last.c] = "OPEN" /\ readyState[sent[j].to] = "OPEN"

\* C19: the step that accepts a payload P leaves as cache the value built from P
\* and the clock's reading alone, in which no property of the value cached
\* before survives, at top level or in _meta, unless P has it; every other
\* step, a rejected message included, leaves the cache as it was.
C19_CacheHoldsNoHistory ==
    [][IF last'.op = "message" /\ last'.accepted
       THEN LET payload == ParseOf[last'.msg]
            IN  /\ latestJson' = ReceiptOf[last'.msg][last'.ms]
                /\ \A k \in KeysOf(latestJson) \ (KeysOf(payload) \cup {"_meta"}) :
                      GetProperty(latestJson', k) = Undefined
                /\ \A k \in KeysOf(GetProperty(latestJson, "_meta"))
                              \ (KeysOf(GetProperty(payload, "_meta")) \cup {"receivedAt"}) :
                      GetProperty(GetProperty(latestJson', "_meta"), k) = Undefined
       ELSE latestJson' = latestJson]_vars

\* a message has been rejected while the cache held the payload { "x": 1 }
\* accepted before it, and the cache still holds exactly that payload
C19_Witness ==
    /\ last.op = "message" /\ ~last.accepted
    /\ KeysOf(latestJson) = {"x", "_meta"}
    /\ GetProperty(latestJson, "x") = JNum(1)
    /\ KeysOf(GetProperty(latestJson, "_meta")) = {"receivedAt"}

\* C20: the handler of an accepted message M sets one timer for each client
\* that is OPEN, each holding a copy of the value cached for M; a timer that
\* runs hands to the socket of its client the serialization of the value
\* accepted for M, whatever the cache holds by then, and nothing else.
C20_DeferredSendsSnapshot ==
    [][/\ (last'.op = "message" /\ last'.accepted)
          => /\ Len(timers') = Len(timers)
                   + Cardinality({d \in Sockets : readyState[d] = "OPEN" /\ InClients(d)})
             /\ \A i \in (Len(timers) + 1)..Len(timers') :
                   /\ timers'[i].data = latestJson'
                   /\ timers'[i].msg = last'.msg /\ timers'[i].ms = last'.ms
                   /\ readyState[timers'[i].to] = "OPEN"
       /\ last'.op = "timer"
          => /\ Len(sent') = 1
             /\ \A i \in 1..Len(sent') :
                   /\ sent'[i].to = last'.c /\ sent'[i].kind = "text"
                   /\ MergesReceipt(ParseOf[last'.msg], JSONparse(sent'[i].data),
                                    toISOString(last'.ms))
                   /\ JSONparse(sent'[i].data) = ReceiptOf[last'.msg][last'.ms]
             /\ latestJson' = latestJson]_vars

\* a timer set for {"x":1} has delivered that value, with its receipt, after a
\* later message had put another value in the cache
C20_Witness ==
    /\ last.op = "timer" /\ last.msg = Msg(TextX, 0)
    /\ Len(sent) = 1 /\ ~sent[1].threw /\ readyState[last.c] = "OPEN"
    /\ GetProperty(JSONparse(sent[1].data), "x") = JNum(1)
    /\ Delivers(sent[1], last.c, ReceiptOf[last.msg][last.ms])
    /\ GetProperty(latestJson, "x") = Undefined
    /\ latestJson # JNull

\* C21 as stated: a timer callback hands a frame only to a socket that is OPEN
\* when the callback runs.
C21_DeferredSendOnlyToOpen ==
    [][last'.op = "timer"
       => \A i \in 1..Len(sent') : readyState[sent'[i].to] = "OPEN"]_vars

\* the timers of the queue q that are set for client c
TimersFor(q, c) == SelectSeq(q, LAMBDA t : t.to = c)

\* C22: broadcast values reach a client in the order their messages were
\* accepted.  Heartbeat revision: the step that accepts a message hands its
\* value, the new cache, once to every client that is OPEN, and no other step
\* hands a client that was already OPEN anything but an error response or a
\* ping.  Deferred revision: the step that accepts a message puts its timers
\* behind those already set, a timer step runs the timer set first, no other
\* step changes the queue, and the last timer pending for a client that is
\* OPEN delivers the cache.
C22_BroadcastsKeepAcceptanceOrder ==
    [][/\ process'.revision = "heartbeat"
          => IF last'.op = "message" /\ last'.accepted
             THEN \A d \in Sockets :
                     readyState[d] = "OPEN"
                     => \E i \in 1..Len(sent') :
                           /\ sent'[i].to = d
                           /\ sent'[i].data = ReceiptTextOf[last'.msg][last'.ms]
                           /\ ReceiptOf[last'.msg][last'.ms] = latestJson'
                           /\ \A j \in 1..Len(sent') : sent'[j].to = d => j = i
             ELSE \A i \in 1..Len(sent') :
                     \/ readyState[sent'[i].to] # "OPEN"
                     \/ sent'[i].kind = "ping"
                     \/ sent'[i].to = last'.c /\ last'.op = "message" /\ IsErrorFrame(sent'[i])
       /\ process'.revision = "deferred"
          => /\ (last'.op = "message" /\ last'.accepted)
                => /\ SubSeq(timers', 1, Len(timers)) = timers
                   /\ \A i \in (Len(timers) + 1)..Len(timers') :
                         timers'[i].data = latestJson'
                   /\ \A d \in Sockets :
                         readyState[d] = "OPEN"
                         => Len(TimersFor(timers', d)) = Len(TimersFor(timers, d)) + 1
                   /\ sent' = <<>>
             /\ last'.op = "timer"
                => /\ timers # <<>> /\ timers' = Tail(timers)
                   /\ sent' = <<TextFrame(Head(timers).to, Stringify(Head(timers).data),
                                          sent'[1].threw)>>
                   /\ (/\ readyState'[last'.c] = "OPEN"
                       /\ TimersFor(timers', last'.c) = <<>>)
                      => Delivers(sent'[1], last'.c, latestJson')
             /\ ~(last'.op = "timer" \/ (last'.op = "message" /\ last'.accepted))
                => timers' = timers]_vars

\* deferred revision: the timer of {"x":1} has delivered it to a client that is
\* OPEN while the timer of the message accepted after it, whose value is the
\* cache, is still pending for the same client
C22_Witness ==
    /\ process.revision = "deferred"
    /\ last.op = "timer" /\ last.msg = Msg(TextX, 0)
    /\ readyState[last.c] = "OPEN"
    /\ Len(sent) = 1 /\ Delivers(sent[1], last.c, ReceiptOf[last.msg][last.ms])
    /\ TimersFor(timers, last.c) # <<>>
    /\ TimersFor(timers, last.c)[1].data = latestJson
    /\ GetProperty(latestJson, "x") = Undefined

\* C23: a step that calls terminate on a connection whose socket is already
\* CLOSING (a tick that finds the flag false, or a socket error) changes no
\* socket, nor the registry, the cache, a flag or a timer, and sends nothing;
\* a broadcast leaves every socket that is not OPEN as it was; the close event
\* of a connection is processed for a socket that is not yet CLOSED, takes it
\* out of the registry and makes it CLOSED, and no step changes a CLOSED
\* socket.
C23_TerminateIsIdempotent ==
    [][\A c \in Sockets :
          /\ (/\ readyState[c] = "CLOSING" /\ last'.c = c
              /\ \/ last'.op = "tick" /\ ~isAlive[c]
                 \/ last'.op = "error")
             => /\ readyState' = readyState /\ clients' = clients
                /\ latestJson' = latestJson /\ isAlive' = isAlive
                /\ pingInterval' = pingInterval /\ sent' = <<>>
          /\ (last'.op = "message" /\ readyState[c] # "OPEN")
             => readyState'[c] = readyState[c]
          /\ (last'.op = "close" /\ last'.c = c)
             => /\ readyState[c] # "CLOSED" /\ readyState'[c] = "CLOSED"
                /\ InClients(c) /\ clients' = RemoveClient(clients, c)
                /\ \A d \in Sockets \ {c} : readyState'[d] = readyState[d]
          /\ readyState[c] = "CLOSED"
             => readyState'[c] = "CLOSED" /\ ~InClients(c)]_vars

\* a socket error has called terminate on a connection that the monitor had
\* already terminated at its second unanswered tick, and that is still
\* registered
C23_Witness ==
    \E c \in Sockets :
       /\ last.op = "error" /\ last.c = c
       /\ missed[c] = 2 /\ ~isAlive[c]
       /\ readyState[c] = "CLOSING" /\ InClients(c) /\ pingInterval[c]

\* C24 as stated, of part_001: once the handler of a message has run, GET /
\* answers 200 with the value stored for that message, its parsed JSON or
\* { raw: message }.
C24_RootServesLatest ==
    [][last'.op = "message"
       => /\ GetRoot'.status = 200
          /\ JSONparse(GetRoot'.body) = P1Latest(last'.msg)]_vars


\* the cache has been filled by the server: it is a plain object whose _meta is
\* an object with receivedAt a time stamp of the server's clock
IsReceipted(v) ==
    /\ v.t = "obj"
    /\ GetProperty(v, "_meta").t = "obj"
    /\ GetProperty(GetProperty(v, "_meta"), "receivedAt")
         \in {JStr(toISOString(ms)) : ms \in Clock}

\* C25: in every state of the heartbeat revision the cache is null or an object
\* carrying _meta.receivedAt set by the server; it is null until a message is
\* accepted and an accepted message fills it with that message's receipt; once
\* filled it is never null again, whatever is received, and the handler of every
\* connection made from then on sends that connection one greeting: the cached
\* members under a fresh _meta.
C25_CacheNullOrReceipted ==
    /\ [](latestJson = JNull \/ IsReceipted(latestJson))
    /\ [][/\ (latestJson = JNull /\ ~(last'.op = "message" /\ last'.accepted))
                => latestJson' = JNull
          /\ (last'.op = "message" /\ last'.accepted)
                => /\ IsReceipted(latestJson')
                   /\ GetProperty(GetProperty(latestJson', "_meta"), "receivedAt")
                        = JStr(toISOString(last'.ms))
          /\ latestJson # JNull => latestJson' # JNull
          /\ last'.op = "connection"
                => IF latestJson = JNull
                   THEN sent' = <<>>
                   ELSE /\ Len(sent') = 1
                        /\ sent'[1].to = last'.c
                        /\ sent'[1].kind = "text" /\ ~sent'[1].threw
                        /\ latestJson' = latestJson
                        /\ JSONparse(sent'[1].data).t = "obj"
                        /\ KeepsMembers(latestJson, JSONparse(sent'[1].data), "_meta")]_vars

\* a second connection made once {"x":1} has been accepted: the cache holds its
\* receipt and the greeting, with x, has been handed to the new connection
C25_Witness ==
    /\ last.op = "connection"
    /\ last.c = 2
    /\ IsReceipted(latestJson)
    /\ GetProperty(latestJson, "x") = JNum(1)
    /\ Len(sent) = 1
    /\ sent[1].to = 2
    /\ GetProperty(JSONparse(sent[1].data), "x") = JNum(1)
    /\ readyState[1] = "OPEN"
====
